---- MODULE Spec2Model ----
(***************************************************************************)
(* Model of src/centinela-verde.cpp, the "Sentinela Verde" fire sentinel.  *)
(*                                                                         *)
(* The file holds two complete sketches one after the other:               *)
(*   v1  lines   1..233  keeps the sdAvailable flag, checks beginPacket,   *)
(*                       goes on when LoRa.begin fails;                    *)
(*   v2  lines 236..537  spins forever when LoRa.begin fails, ignores the  *)
(*                       result of beginPacket, calls SD.begin every cycle.*)
(* Only one of them can be built at a time, so `variant` is fixed by Init. *)
(*                                                                         *)
(* Floats are kept in tenths (40.0 is 400); NaN is a value of its own on   *)
(* which every ordered comparison is false.  millis() is clock * 50.       *)
(***************************************************************************)
EXTENDS Integers, Sequences, FiniteSets

VARIABLES
    variant,              \* which sketch is built: "v1" or "v2"
    pc,                   \* position of the single thread of control
    currentTemperature,   \* float currentTemperature (tenths)
    currentHumidity,      \* float currentHumidity (tenths)
    mq2Value,             \* int mq2Value
    mq135Value,           \* int mq135Value
    internalTemperature,  \* float internalTemperature (tenths)
    currentAlertLevel,    \* AlertLevel currentAlertLevel
    sdAvailable,          \* bool sdAvailable (v1 only; v2 never touches it)
    ledPin,               \* level last written to LED_PIN
    buzzerPin,            \* level last written to BUZZER_PIN
    toneFreq,             \* frequency of the running tone() on BUZZER_PIN, 0 if none
    clock,                \* millis() in steps of 50 ms
    loraBegun,            \* result of LoRa.begin in setup
    sdAtSetup,            \* history: result of the SD.begin made by setup
    loraCalls,            \* LoRa calls of the current cycle, in order, with results
    sdCalls,              \* SD / File calls of the current cycle, in order, with results
    serial,               \* diagnostics printed in the current cycle
    dhtFailed,            \* history: the DHT22 read of the current cycle was NaN
    loraPacket,           \* text handed to LoRa.print in the current cycle, <<>> if none
    sdLine,               \* text handed to dataFile.println in the current cycle, <<>> if none
    lastOpenFailed        \* history: SD.open failed in the cycle before the current one

vars == <<variant, pc, currentTemperature, currentHumidity, mq2Value, mq135Value,
          internalTemperature, currentAlertLevel, sdAvailable, ledPin, buzzerPin,
          toneFreq, clock, loraBegun, sdAtSetup, loraCalls, sdCalls, serial, dhtFailed,
          loraPacket, sdLine, lastOpenFailed>>

\* ---------------------------------------------------------------- bounds
\* millis() wraps after ClockWrap steps of 50 ms (the real counter wraps at 2^32 ms).
ClockWrap == 21
\* A cycle lasts delay(5000) plus up to MaxJitter steps of 50 ms of execution time.
MaxJitter == 1

\* ------------------------------------------------------------- constants
TEMP_CRITICA == 400
HUM_CRITICA == 200
GAS_UMBRAL_MQ2 == 1500
GAS_UMBRAL_MQ135 == 1200
DEVICE_DISCONNECTED_C == -1270
NaN == -99999

AL_BAJA == 0
AL_MEDIA == 1
AL_ALTA == 2
AL_CRITICA == 3
AlertLevel == {AL_BAJA, AL_MEDIA, AL_ALTA, AL_CRITICA}

\* What the sensors can return in a cycle.
TempReadings == {NaN, TEMP_CRITICA, TEMP_CRITICA + 1}
HumReadings == {NaN, HUM_CRITICA - 1, HUM_CRITICA}
ProbeReadings == {DEVICE_DISCONNECTED_C, 225}
Mq2Readings == {GAS_UMBRAL_MQ2, GAS_UMBRAL_MQ2 + 1}
Mq135Readings == {GAS_UMBRAL_MQ135, GAS_UMBRAL_MQ135 + 1}

\* ------------------------------------------------------------ arithmetic
isnan(x) == x = NaN
\* IEEE comparisons: false as soon as one side is NaN.
FloatGT(a, b) == ~isnan(a) /\ ~isnan(b) /\ a > b
FloatLT(a, b) == ~isnan(a) /\ ~isnan(b) /\ a < b

millis == clock * 50

Count(x, s) == Cardinality({i \in 1..Len(s) : s[i] = x})

\* ------------------------------------------------------------ classifier
\* The three locals of evaluateAlertLevel, as functions of the globals.
\* Mutant: >= instead of >.
TempHigh_NonStrict ==
    ~isnan(currentTemperature) /\ currentTemperature >= TEMP_CRITICA

TempHigh == FloatGT(currentTemperature, TEMP_CRITICA)
HumLow == FloatLT(currentHumidity, HUM_CRITICA)
GasDetected == mq2Value > GAS_UMBRAL_MQ2 \/ mq135Value > GAS_UMBRAL_MQ135

\* Mutant: the ALTA test placed before the CRITICA test.
Classify_AltaFirst(t, h, g) ==
    IF t /\ g THEN AL_ALTA
    ELSE IF t /\ h /\ g THEN AL_CRITICA
    ELSE IF (t /\ h) \/ (h /\ g) THEN AL_MEDIA
    ELSE AL_BAJA

\* Mutant: gas alone is enough for AL_MEDIA.
Classify_GasAloneMedia(t, h, g) ==
    IF t /\ h /\ g THEN AL_CRITICA
    ELSE IF t /\ g THEN AL_ALTA
    ELSE IF (t /\ h) \/ g THEN AL_MEDIA
    ELSE AL_BAJA

\* Mutant: the MEDIA test placed first.
Classify_MediaFirst(t, h, g) ==
    IF (t /\ h) \/ (h /\ g) THEN AL_MEDIA
    ELSE IF t /\ h /\ g THEN AL_CRITICA
    ELSE IF t /\ g THEN AL_ALTA
    ELSE AL_BAJA

\* The if / else-if chain of evaluateAlertLevel.
Classify(t, h, g) ==
    IF t /\ h /\ g THEN AL_CRITICA
    ELSE IF t /\ g THEN AL_ALTA
    ELSE IF (t /\ h) \/ (h /\ g) THEN AL_MEDIA
    ELSE AL_BAJA

\* Mutant: the AL_ALTA case is missing and falls to the default.
getAlertLevelString_NoAlta(level) ==
    CASE level = AL_BAJA -> "BAJA"
      [] level = AL_MEDIA -> "MEDIA"
      [] level = AL_CRITICA -> "CRITICA"
      [] OTHER -> "DESCONOCIDO"

getAlertLevelString(level) ==
    CASE level = AL_BAJA -> "BAJA"
      [] level = AL_MEDIA -> "MEDIA"
      [] level = AL_ALTA -> "ALTA"
      [] level = AL_CRITICA -> "CRITICA"
      [] OTHER -> "DESCONOCIDO"

\* --------------------------------------------------------------- records
\* String(x, 1) of a float kept in tenths: sign, integer part, one decimal.
Fmt1(x) ==
    IF x < 0 THEN <<"-", (-x) \div 10, (-x) % 10>> ELSE <<"", x \div 10, x % 10>>

\* Mutant: humidity written before temperature.
LoRaMessage_HumFirst(level, temp, hum, mq2, mq135) ==
    <<"ALERTA_INCENDIO", "Nivel:", getAlertLevelString(level),
      "Temp:", Fmt1(hum), "Hum:", Fmt1(temp),
      "MQ2:", mq2, "MQ135:", mq135, "ID:Sentinela001">>

\* The message sendLoRaAlert builds, field by field.
LoRaMessage(level, temp, hum, mq2, mq135) ==
    <<"ALERTA_INCENDIO", "Nivel:", getAlertLevelString(level),
      "Temp:", Fmt1(temp), "Hum:", Fmt1(hum),
      "MQ2:", mq2, "MQ135:", mq135, "ID:Sentinela001">>

\* Mutant: the division by 1000 left out.
LogLine_v1_Millis ==
    <<<<millis, "s">>, Fmt1(currentTemperature), Fmt1(currentHumidity),
      Fmt1(internalTemperature), mq2Value, mq135Value,
      getAlertLevelString(currentAlertLevel)>>

\* v1: the line logDataToSD builds; the time is millis() / 1000 followed by "s".
LogLine_v1 ==
    <<<<millis \div 1000, "s">>, Fmt1(currentTemperature), Fmt1(currentHumidity),
      Fmt1(internalTemperature), mq2Value, mq135Value,
      getAlertLevelString(currentAlertLevel)>>

\* v2: the line loop() builds before calling logDataToSD; the time is millis().
LogLine_v2 ==
    <<<<millis, "">>, Fmt1(currentTemperature), Fmt1(currentHumidity),
      Fmt1(internalTemperature), mq2Value, mq135Value,
      getAlertLevelString(currentAlertLevel)>>

\* ------------------------------------------------------------------ Init
Init ==
    /\ variant \in {"v1", "v2"}
    /\ pc = "setup"
    /\ currentTemperature = 0
    /\ currentHumidity = 0
    /\ mq2Value = 0
    /\ mq135Value = 0
    /\ internalTemperature = 0
    /\ currentAlertLevel = AL_BAJA
    /\ sdAvailable = FALSE
    /\ ledPin = 0
    /\ buzzerPin = 0
    /\ toneFreq = 0
    /\ clock = 0
    /\ loraBegun = FALSE
    /\ sdAtSetup = FALSE
    /\ loraCalls = <<>>
    /\ sdCalls = <<>>
    /\ serial = {}
    /\ dhtFailed = FALSE
    /\ loraPacket = <<>>
    /\ sdLine = <<>>
    /\ lastOpenFailed = FALSE

readings == <<currentTemperature, currentHumidity, mq2Value, mq135Value,
              internalTemperature>>
outputs == <<ledPin, buzzerPin, toneFreq>>
cycleLog == <<loraCalls, sdCalls, serial, dhtFailed>>

\* ----------------------------------------------------------------- setup
\* v1: a failed LoRa.begin is reported and setup goes on to the SD card.
setup_v1 ==
    /\ variant = "v1"
    /\ pc = "setup"
    /\ ledPin' = 0
    /\ buzzerPin' = 0
    /\ \E ok \in BOOLEAN : loraBegun' = ok
    /\ \E mounted \in BOOLEAN :
          /\ sdAtSetup' = mounted
          /\ sdAvailable' = mounted
    /\ \E j \in 0..MaxJitter : clock' = j % ClockWrap
    /\ pc' = "read"
    /\ UNCHANGED <<variant, readings, currentAlertLevel, toneFreq, cycleLog,
                   loraPacket, sdLine, lastOpenFailed>>

\* Mutant: the while (1) left out, as in v1.
setup_v2_NoHalt ==
    /\ variant = "v2"
    /\ pc = "setup"
    /\ ledPin' = 0
    /\ buzzerPin' = 0
    /\ \E ok \in BOOLEAN : loraBegun' = ok
    /\ \E mounted \in BOOLEAN : sdAtSetup' = mounted
    /\ \E j \in 0..MaxJitter : clock' = j % ClockWrap
    /\ pc' = "read"
    /\ UNCHANGED <<variant, readings, currentAlertLevel, sdAvailable, toneFreq, cycleLog,
                   loraPacket, sdLine, lastOpenFailed>>

\* v2: a failed LoRa.begin ends in while (1); the SD card is never reached.
setup_v2 ==
    /\ variant = "v2"
    /\ pc = "setup"
    /\ ledPin' = 0
    /\ buzzerPin' = 0
    /\ \E ok \in BOOLEAN :
          /\ loraBegun' = ok
          /\ IF ~ok
             THEN /\ pc' = "halt"
                  /\ UNCHANGED <<sdAtSetup, clock>>
             ELSE /\ \E mounted \in BOOLEAN : sdAtSetup' = mounted
                  /\ \E j \in 0..MaxJitter : clock' = j % ClockWrap
                  /\ pc' = "read"
    /\ UNCHANGED <<variant, readings, currentAlertLevel, sdAvailable, toneFreq,
                   cycleLog,
                   loraPacket, sdLine, lastOpenFailed>>

\* -------------------------------------------------------- readAllSensors
\* Mutant: a failed DHT22 read is reported but the NaN values are kept.
readAllSensors_KeepNaN ==
    /\ pc = "read"
    /\ \E h \in HumReadings, t \in TempReadings :
          /\ currentHumidity' = h
          /\ currentTemperature' = t
          /\ dhtFailed' = (isnan(h) \/ isnan(t))
          /\ serial' = IF isnan(h) \/ isnan(t) THEN serial \cup {"Error DHT22"} ELSE serial
    /\ \E d \in ProbeReadings :
          internalTemperature' = IF d = DEVICE_DISCONNECTED_C THEN 0 ELSE d
    /\ \E a \in Mq2Readings : mq2Value' = a
    /\ \E b \in Mq135Readings : mq135Value' = b
    /\ pc' = "evaluate"
    /\ UNCHANGED <<variant, currentAlertLevel, sdAvailable, outputs, clock, loraBegun,
                   sdAtSetup, loraCalls, sdCalls,
                   loraPacket, sdLine, lastOpenFailed>>

\* Mutant: only the value that came back NaN is replaced by 0.0.
readAllSensors_ZeroBadOnly ==
    /\ pc = "read"
    /\ \E h \in HumReadings, t \in TempReadings :
          /\ currentHumidity' = IF isnan(h) THEN 0 ELSE h
          /\ currentTemperature' = IF isnan(t) THEN 0 ELSE t
          /\ dhtFailed' = (isnan(h) \/ isnan(t))
          /\ serial' = IF isnan(h) \/ isnan(t) THEN serial \cup {"Error DHT22"} ELSE serial
    /\ \E d \in ProbeReadings :
          internalTemperature' = IF d = DEVICE_DISCONNECTED_C THEN 0 ELSE d
    /\ \E a \in Mq2Readings : mq2Value' = a
    /\ \E b \in Mq135Readings : mq135Value' = b
    /\ pc' = "evaluate"
    /\ UNCHANGED <<variant, currentAlertLevel, sdAvailable, outputs, clock, loraBegun,
                   sdAtSetup, loraCalls, sdCalls,
                   loraPacket, sdLine, lastOpenFailed>>

readAllSensors ==
    /\ pc = "read"
    /\ \E h \in HumReadings, t \in TempReadings :
          IF isnan(h) \/ isnan(t)
          THEN /\ currentHumidity' = 0
               /\ currentTemperature' = 0
               /\ dhtFailed' = TRUE
               /\ serial' = serial \cup {"Error DHT22"}
          ELSE /\ currentHumidity' = h
               /\ currentTemperature' = t
               /\ dhtFailed' = FALSE
               /\ serial' = serial
    /\ \E d \in ProbeReadings :
          internalTemperature' = IF d = DEVICE_DISCONNECTED_C THEN 0 ELSE d
    /\ \E a \in Mq2Readings : mq2Value' = a
    /\ \E b \in Mq135Readings : mq135Value' = b
    /\ pc' = "evaluate"
    /\ UNCHANGED <<variant, currentAlertLevel, sdAvailable, outputs, clock, loraBegun,
                   sdAtSetup, loraCalls, sdCalls,
                   loraPacket, sdLine, lastOpenFailed>>

\* ---------------------------------------------------- evaluateAlertLevel
evaluateAlertLevel ==
    /\ pc = "evaluate"
    /\ currentAlertLevel' = Classify(TempHigh, HumLow, GasDetected)
    /\ pc' = "actuate"
    /\ UNCHANGED <<variant, readings, sdAvailable, outputs, clock, loraBegun,
                   sdAtSetup, cycleLog,
                   loraPacket, sdLine, lastOpenFailed>>

\* --------------------------------------------------- activateLocalAlerts
\* digitalWrite sets the pin's level; tone() starts a square wave on the pin that
\* runs until noTone() is called (no duration is given), whatever is written to
\* the pin in between.
Actuate(level, altaDiv, criticaDiv) ==
    CASE level = AL_BAJA ->
            /\ ledPin' = 0
            /\ buzzerPin' = 0
            /\ UNCHANGED toneFreq
      [] level = AL_MEDIA ->
            /\ ledPin' = 1
            /\ buzzerPin' = 0
            /\ UNCHANGED toneFreq
      [] level = AL_ALTA ->
            /\ ledPin' = (millis \div altaDiv) % 2
            /\ toneFreq' = IF (millis \div 500) % 2 # 0 THEN 1500 ELSE 0
            /\ UNCHANGED buzzerPin
      [] level = AL_CRITICA ->
            /\ ledPin' = (millis \div criticaDiv) % 2
            /\ toneFreq' = 2000
            /\ UNCHANGED buzzerPin
      [] OTHER -> UNCHANGED outputs

activateLocalAlerts_v1 ==
    /\ variant = "v1"
    /\ pc = "actuate"
    /\ Actuate(currentAlertLevel, 200, 100)
    /\ pc' = "radio"
    /\ UNCHANGED <<variant, readings, currentAlertLevel, sdAvailable, clock, loraBegun,
                   sdAtSetup, cycleLog,
                   loraPacket, sdLine, lastOpenFailed>>

activateLocalAlerts_v2 ==
    /\ variant = "v2"
    /\ pc = "actuate"
    /\ Actuate(currentAlertLevel, 100, 50)
    /\ pc' = "radio"
    /\ UNCHANGED <<variant, readings, currentAlertLevel, sdAvailable, clock, loraBegun,
                   sdAtSetup, cycleLog,
                   loraPacket, sdLine, lastOpenFailed>>

\* --------------------------------------------------------- sendLoRaAlert
\* Mutant: the level == AL_BAJA test left out.
sendLoRaAlert_v1_NoLevelTest ==
    /\ variant = "v1"
    /\ pc = "radio"
    /\ \E ready \in BOOLEAN :
          IF ~ready
          THEN /\ loraCalls' = loraCalls \o <<"beginPacket=0">>
               /\ UNCHANGED serial
          ELSE /\ loraCalls' = loraCalls \o <<"beginPacket=1", "print", "endPacket">>
               /\ serial' = serial \cup {"LoRa enviado"}
    /\ pc' = "log"
    /\ loraPacket' = IF Count("print", loraCalls') > 0
                     THEN LoRaMessage(currentAlertLevel, currentTemperature, currentHumidity,
                                      mq2Value, mq135Value)
                     ELSE loraPacket
    /\ UNCHANGED <<variant, readings, currentAlertLevel, sdAvailable, outputs, clock,
                   loraBegun, sdAtSetup, sdCalls, dhtFailed,
                   sdLine, lastOpenFailed>>

\* v1: level == AL_BAJA short-circuits, so beginPacket is called only above BAJA,
\* and a beginPacket that returns 0 ends the function.
sendLoRaAlert_v1 ==
    /\ variant = "v1"
    /\ pc = "radio"
    /\ IF currentAlertLevel = AL_BAJA
       THEN UNCHANGED <<loraCalls, serial>>
       ELSE \E ready \in BOOLEAN :
               IF ~ready
               THEN /\ loraCalls' = loraCalls \o <<"beginPacket=0">>
                    /\ UNCHANGED serial
               ELSE /\ loraCalls' = loraCalls \o <<"beginPacket=1", "print", "endPacket">>
                    /\ serial' = serial \cup {"LoRa enviado"}
    /\ pc' = "log"
    /\ loraPacket' = IF Count("print", loraCalls') > 0
                     THEN LoRaMessage(currentAlertLevel, currentTemperature, currentHumidity,
                                      mq2Value, mq135Value)
                     ELSE loraPacket
    /\ UNCHANGED <<variant, readings, currentAlertLevel, sdAvailable, outputs, clock,
                   loraBegun, sdAtSetup, sdCalls, dhtFailed,
                   sdLine, lastOpenFailed>>

\* Mutant: the level is put back to AL_BAJA once the alert is out.
sendLoRaAlert_v2_ResetsLevel ==
    /\ variant = "v2"
    /\ pc = "radio"
    /\ IF currentAlertLevel = AL_BAJA
       THEN UNCHANGED <<loraCalls, serial>>
       ELSE /\ \E ready \in BOOLEAN :
                  loraCalls' = loraCalls \o
                      <<IF ready THEN "beginPacket=1" ELSE "beginPacket=0", "print", "endPacket">>
            /\ serial' = serial \cup {"Enviando alerta LoRa", "Alerta LoRa enviada"}
    /\ currentAlertLevel' = AL_BAJA
    /\ pc' = "log"
    /\ loraPacket' = IF Count("print", loraCalls') > 0
                     THEN LoRaMessage(currentAlertLevel, currentTemperature, currentHumidity,
                                      mq2Value, mq135Value)
                     ELSE loraPacket
    /\ UNCHANGED <<variant, readings, sdAvailable, outputs, clock,
                   loraBegun, sdAtSetup, sdCalls, dhtFailed,
                   sdLine, lastOpenFailed>>

\* v2: the result of beginPacket is not looked at.
sendLoRaAlert_v2 ==
    /\ variant = "v2"
    /\ pc = "radio"
    /\ IF currentAlertLevel = AL_BAJA
       THEN UNCHANGED <<loraCalls, serial>>
       ELSE /\ \E ready \in BOOLEAN :
                  loraCalls' = loraCalls \o
                      <<IF ready THEN "beginPacket=1" ELSE "beginPacket=0", "print", "endPacket">>
            /\ serial' = serial \cup {"Enviando alerta LoRa", "Alerta LoRa enviada"}
    /\ pc' = "log"
    /\ loraPacket' = IF Count("print", loraCalls') > 0
                     THEN LoRaMessage(currentAlertLevel, currentTemperature, currentHumidity,
                                      mq2Value, mq135Value)
                     ELSE loraPacket
    /\ UNCHANGED <<variant, readings, currentAlertLevel, sdAvailable, outputs, clock,
                   loraBegun, sdAtSetup, sdCalls, dhtFailed,
                   sdLine, lastOpenFailed>>

\* ----------------------------------------------------------- logDataToSD
\* Mutant: the sdAvailable test left out.
logDataToSD_v1_NoFlagTest ==
    /\ variant = "v1"
    /\ pc = "log"
    /\ \E opened \in BOOLEAN :
          IF opened
          THEN /\ sdCalls' = sdCalls \o <<"open=1", "println", "close">>
               /\ serial' = serial \cup {"Log guardado en SD"}
          ELSE /\ sdCalls' = sdCalls \o <<"open=0">>
               /\ serial' = serial \cup {"Error al escribir en la SD"}
    /\ pc' = "delay"
    /\ sdLine' = IF Count("println", sdCalls') > 0 THEN LogLine_v1 ELSE sdLine
    /\ UNCHANGED <<variant, readings, currentAlertLevel, sdAvailable, outputs, clock,
                   loraBegun, sdAtSetup, loraCalls, dhtFailed,
                   loraPacket, lastOpenFailed>>

\* Mutant: the flag is refreshed by a new SD.begin in every cycle.
logDataToSD_v1_Reprobe ==
    /\ variant = "v1"
    /\ pc = "log"
    /\ \E mounted \in BOOLEAN :
          /\ sdAvailable' = mounted
          /\ IF ~mounted
             THEN /\ sdCalls' = sdCalls \o <<"begin=0">>
                  /\ UNCHANGED serial
             ELSE /\ sdCalls' = sdCalls \o <<"begin=1", "open=1", "println", "close">>
                  /\ serial' = serial \cup {"Log guardado en SD"}
    /\ pc' = "delay"
    /\ sdLine' = IF Count("println", sdCalls') > 0 THEN LogLine_v1 ELSE sdLine
    /\ UNCHANGED <<variant, readings, currentAlertLevel, outputs, clock,
                   loraBegun, sdAtSetup, loraCalls, dhtFailed,
                   loraPacket, lastOpenFailed>>

\* Mutant: a failed SD.open stops the sketch.
logDataToSD_v1_StopOnOpenFailure ==
    /\ variant = "v1"
    /\ pc = "log"
    /\ IF ~sdAvailable
       THEN /\ UNCHANGED <<sdCalls, serial>>
            /\ pc' = "delay"
       ELSE \E opened \in BOOLEAN :
               IF opened
               THEN /\ sdCalls' = sdCalls \o <<"open=1", "println", "close">>
                    /\ serial' = serial \cup {"Log guardado en SD"}
                    /\ pc' = "delay"
               ELSE /\ sdCalls' = sdCalls \o <<"open=0">>
                    /\ serial' = serial \cup {"Error al escribir en la SD"}
                    /\ pc' = "halt"
    /\ sdLine' = IF Count("println", sdCalls') > 0 THEN LogLine_v1 ELSE sdLine
    /\ UNCHANGED <<variant, readings, currentAlertLevel, sdAvailable, outputs, clock,
                   loraBegun, sdAtSetup, loraCalls, dhtFailed,
                   loraPacket, lastOpenFailed>>

\* Mutant: a failed SD.open clears the flag.
logDataToSD_v1_DisableOnOpenFailure ==
    /\ variant = "v1"
    /\ pc = "log"
    /\ IF ~sdAvailable
       THEN UNCHANGED <<sdCalls, serial, sdAvailable>>
       ELSE \E opened \in BOOLEAN :
               IF opened
               THEN /\ sdCalls' = sdCalls \o <<"open=1", "println", "close">>
                    /\ serial' = serial \cup {"Log guardado en SD"}
                    /\ UNCHANGED sdAvailable
               ELSE /\ sdCalls' = sdCalls \o <<"open=0">>
                    /\ serial' = serial \cup {"Error al escribir en la SD"}
                    /\ sdAvailable' = FALSE
    /\ pc' = "delay"
    /\ sdLine' = IF Count("println", sdCalls') > 0 THEN LogLine_v1 ELSE sdLine
    /\ UNCHANGED <<variant, readings, currentAlertLevel, outputs, clock,
                   loraBegun, sdAtSetup, loraCalls, dhtFailed,
                   loraPacket, lastOpenFailed>>

\* v1: guarded by the flag that setup set.
logDataToSD_v1 ==
    /\ variant = "v1"
    /\ pc = "log"
    /\ IF ~sdAvailable
       THEN UNCHANGED <<sdCalls, serial>>
       ELSE \E opened \in BOOLEAN :
               IF opened
               THEN /\ sdCalls' = sdCalls \o <<"open=1", "println", "close">>
                    /\ serial' = serial \cup {"Log guardado en SD"}
               ELSE /\ sdCalls' = sdCalls \o <<"open=0">>
                    /\ serial' = serial \cup {"Error al escribir en la SD"}
    /\ pc' = "delay"
    /\ sdLine' = IF Count("println", sdCalls') > 0 THEN LogLine_v1 ELSE sdLine
    /\ UNCHANGED <<variant, readings, currentAlertLevel, sdAvailable, outputs, clock,
                   loraBegun, sdAtSetup, loraCalls, dhtFailed,
                   loraPacket, lastOpenFailed>>

\* v2: SD.begin is called again in every cycle; SD.open only when it succeeded.
logDataToSD_v2 ==
    /\ variant = "v2"
    /\ pc = "log"
    /\ \E mounted \in BOOLEAN :
          IF ~mounted
          THEN /\ sdCalls' = sdCalls \o <<"begin=0">>
               /\ serial' = serial \cup {"Tarjeta SD no disponible"}
          ELSE \E opened \in BOOLEAN :
               IF opened
               THEN /\ sdCalls' = sdCalls \o <<"begin=1", "open=1", "println", "close">>
                    /\ serial' = serial \cup {"Datos registrados en SD"}
               ELSE /\ sdCalls' = sdCalls \o <<"begin=1", "open=0">>
                    /\ serial' = serial \cup {"Error al abrir el archivo"}
    /\ pc' = "delay"
    /\ sdLine' = IF Count("println", sdCalls') > 0 THEN LogLine_v2 ELSE sdLine
    /\ UNCHANGED <<variant, readings, currentAlertLevel, sdAvailable, outputs, clock,
                   loraBegun, sdAtSetup, loraCalls, dhtFailed,
                   loraPacket, lastOpenFailed>>

\* ------------------------------------------------------------------ loop
\* delay(5000) and the return to the top of loop(): time passes and the record of
\* the cycle's calls starts afresh.
loopDelay ==
    /\ pc = "delay"
    /\ \E j \in 0..MaxJitter : clock' = (clock + 100 + j) % ClockWrap
    /\ loraCalls' = <<>>
    /\ sdCalls' = <<>>
    /\ serial' = {}
    /\ dhtFailed' = FALSE
    /\ pc' = "read"
    /\ loraPacket' = <<>>
    /\ sdLine' = <<>>
    /\ lastOpenFailed' = (Count("open=0", sdCalls) > 0)
    /\ UNCHANGED <<variant, readings, currentAlertLevel, sdAvailable, outputs,
                   loraBegun, sdAtSetup>>

loop ==
    \/ readAllSensors
    \/ evaluateAlertLevel
    \/ activateLocalAlerts_v1
    \/ activateLocalAlerts_v2
    \/ sendLoRaAlert_v1
    \/ sendLoRaAlert_v2
    \/ logDataToSD_v1
    \/ logDataToSD_v2
    \/ loopDelay

Next ==
    \/ setup_v1
    \/ setup_v2
    \/ loop

Spec == Init /\ [][Next]_vars

\* The processor always executes the next statement.
LiveSpec == Spec /\ WF_vars(Next)

\* Positions of a cycle by what has already run in it.
Classified == pc \in {"actuate", "radio", "log", "delay"}
Actuated == pc \in {"radio", "log", "delay"}
RadioDone == pc \in {"log", "delay"}
CycleDone == pc = "delay"

\* What the call records of the current cycle hold.
BeginPackets == Count("beginPacket=1", loraCalls) + Count("beginPacket=0", loraCalls)
Payloads == Count("print", loraCalls)
EndPackets == Count("endPacket", loraCalls)
LinkWasReady == Count("beginPacket=1", loraCalls) > 0
LinkWasBusy == Count("beginPacket=0", loraCalls) > 0
SentDiagnostics == serial \cap {"LoRa enviado", "Alerta LoRa enviada"}
Opens == Count("open=1", sdCalls) + Count("open=0", sdCalls)
Begins == Count("begin=1", sdCalls) + Count("begin=0", sdCalls)
\* v1 marks storage with its flag; v2 has no flag and asks SD.begin in the log step.
StorageAvailable ==
    IF variant = "v1" THEN sdAvailable ELSE Count("begin=1", sdCalls) > 0
AudibleOff == toneFreq = 0 /\ buzzerPin = 0

\* ======================================================================
\* C1: for each of the 8 combinations of (tempHigh, humLow, gasDetected) the
\* level set by evaluateAlertLevel is CRITICA iff all three hold, ALTA iff
\* tempHigh and gasDetected hold without humLow, MEDIA iff humLow holds with
\* exactly one of the other two, and BAJA in the remaining four.
C1_DecisionTable ==
    Classified =>
        /\ currentAlertLevel \in AlertLevel
        /\ (currentAlertLevel = AL_CRITICA) <=> (TempHigh /\ HumLow /\ GasDetected)
        /\ (currentAlertLevel = AL_ALTA) <=> (TempHigh /\ ~HumLow /\ GasDetected)
        /\ (currentAlertLevel = AL_MEDIA) <=>
              (HumLow /\ ((TempHigh /\ ~GasDetected) \/ (~TempHigh /\ GasDetected)))
        /\ (currentAlertLevel = AL_BAJA) <=>
              \/ ~TempHigh /\ ~HumLow
              \/ ~TempHigh /\ ~GasDetected
              \/ ~HumLow /\ ~GasDetected

C1_Witness ==
    /\ pc = "actuate"
    /\ TempHigh /\ HumLow /\ GasDetected
    /\ currentAlertLevel = AL_CRITICA

\* ======================================================================
\* C2 as stated: in a cycle whose DHT22 read failed both fields are 0.0, neither
\* tempHigh nor humLow holds, and the level is BAJA whatever the gas readings.
C2_FailureIsAlwaysLow ==
    (Classified /\ dhtFailed) =>
        /\ currentTemperature = 0
        /\ currentHumidity = 0
        /\ ~TempHigh
        /\ ~HumLow
        /\ currentAlertLevel = AL_BAJA

\* C2 amended: in a cycle whose DHT22 read failed both fields are 0.0, tempHigh
\* does not hold but humLow does (0.0 < 20.0), and the level is BAJA when neither
\* gas reading is above its threshold and MEDIA when one is.
C2_FailureIsLowOrMedium ==
    /\ (dhtFailed /\ pc # "read") =>
          /\ currentTemperature = 0
          /\ currentHumidity = 0
    /\ (Classified /\ dhtFailed) =>
          /\ ~FloatGT(currentTemperature, TEMP_CRITICA)
          /\ FloatLT(currentHumidity, HUM_CRITICA)
          /\ currentAlertLevel =
                IF mq2Value > GAS_UMBRAL_MQ2 \/ mq135Value > GAS_UMBRAL_MQ135
                THEN AL_MEDIA
                ELSE AL_BAJA

C2_Witness ==
    /\ pc = "actuate"
    /\ dhtFailed
    /\ mq2Value > GAS_UMBRAL_MQ2
    /\ currentAlertLevel = AL_MEDIA

\* ======================================================================
\* C3: sendLoRaAlert calls nothing on the radio when the level is BAJA, makes
\* exactly one beginPacket / print / endPacket when the level is above BAJA and
\* the link is ready, and no cycle holds more than one transmission.
C3_OneTransmissionAboveLow ==
    /\ BeginPackets <= 1 /\ Payloads <= 1 /\ EndPackets <= 1
    /\ (pc \in {"read", "evaluate", "actuate", "radio"}) => loraCalls = <<>>
    /\ (RadioDone /\ currentAlertLevel = AL_BAJA) => loraCalls = <<>>
    /\ (RadioDone /\ currentAlertLevel # AL_BAJA) => BeginPackets = 1
    /\ (RadioDone /\ currentAlertLevel # AL_BAJA /\ LinkWasReady) =>
          loraCalls = <<"beginPacket=1", "print", "endPacket">>

C3_Witness ==
    /\ pc = "log"
    /\ currentAlertLevel = AL_MEDIA
    /\ loraCalls = <<"beginPacket=1", "print", "endPacket">>

\* ======================================================================
\* C4: when the level is above BAJA and beginPacket fails, sendLoRaAlert stops
\* there: no payload is written, no packet is finalized and no 'sent'
\* diagnostic is printed.
C4_AbortsWhenBeginPacketFails ==
    (RadioDone /\ currentAlertLevel # AL_BAJA /\ LinkWasBusy) =>
        /\ loraCalls = <<"beginPacket=0">>
        /\ Payloads = 0
        /\ EndPackets = 0
        /\ SentDiagnostics = {}

\* ======================================================================
\* C5: a cycle makes exactly one SD.open when storage is available and none
\* when it is not, whatever the level and whatever the radio step did.
C5_OneAppendAttemptPerCycle ==
    /\ Opens <= 1
    /\ pc \in {"read", "evaluate", "actuate", "radio", "log"} => sdCalls = <<>>
    /\ CycleDone => Opens = (IF StorageAvailable THEN 1 ELSE 0)

C5_Witness ==
    /\ CycleDone
    /\ currentAlertLevel = AL_CRITICA
    /\ LinkWasBusy
    /\ StorageAvailable
    /\ Opens = 1

\* ======================================================================
\* C6 as stated: when LoRa.begin fails in setup the sketch halts and the cycle
\* is never entered.
C6_HaltsWhenRadioDown ==
    (pc # "setup" /\ ~loraBegun) => pc = "halt"

\* C6 amended: when LoRa.begin fails in setup, the sketch of lines 236..537
\* halts for good, with nothing read, classified, actuated, sent or logged; the
\* sketch of lines 1..233 reports the failure and enters the cycle.
C6_RadioDownAtStartup ==
    (pc # "setup" /\ ~loraBegun) =>
        IF variant = "v2"
        THEN /\ pc = "halt"
             /\ readings = <<0, 0, 0, 0, 0>>
             /\ currentAlertLevel = AL_BAJA
             /\ outputs = <<0, 0, 0>>
             /\ cycleLog = <<<<>>, <<>>, {}, FALSE>>
        ELSE pc # "halt"

C6_Witness ==
    /\ variant = "v2"
    /\ pc = "halt"
    /\ ~loraBegun

\* ======================================================================
\* C7 as stated: no step of a cycle initializes storage again, and when storage
\* was unavailable at startup no cycle ever touches the card.
C7_NeverReprobed ==
    pc # "setup" =>
        /\ Begins = 0
        /\ ~sdAtSetup => sdCalls = <<>>

\* C7 amended: in the sketch of lines 1..233 the flag keeps the value setup gave
\* it, no step of a cycle calls SD.begin, and when storage was unavailable at
\* startup no cycle touches the card; the sketch of lines 236..537 has no flag
\* and calls SD.begin once in the log step of every cycle.
C7_FlagSetOnceInFirstSketch ==
    /\ (variant = "v1" /\ pc # "setup") =>
          /\ sdAvailable = sdAtSetup
          /\ Begins = 0
          /\ ~sdAtSetup => sdCalls = <<>>
    /\ (variant = "v2" /\ CycleDone) => Begins = 1

C7_Witness ==
    /\ variant = "v1"
    /\ CycleDone
    /\ ~sdAtSetup
    /\ ~sdAvailable
    /\ sdCalls = <<>>

\* ======================================================================
\* C8: once the cycle runs, each of its five steps is followed by the next one
\* and the delay by the next read, whatever failed in the cycle; under fair
\* scheduling every step that is reached is eventually left.
StepAfter(p) ==
    CASE p = "read" -> "evaluate"
      [] p = "evaluate" -> "actuate"
      [] p = "actuate" -> "radio"
      [] p = "radio" -> "log"
      [] p = "log" -> "delay"
      [] p = "delay" -> "read"
      [] OTHER -> p

CyclePositions == {"read", "evaluate", "actuate", "radio", "log", "delay"}

StepsInOrder == pc \in CyclePositions => pc' = StepAfter(pc)

C8_CycleNeverStops ==
    /\ [][StepsInOrder]_vars
    /\ \A p \in CyclePositions : (pc = p) ~> (pc = StepAfter(p))

C8_Witness ==
    /\ CycleDone
    /\ dhtFailed
    /\ LinkWasBusy
    /\ Count("open=0", sdCalls) = 1

\* ======================================================================
\* C9: after the actuation step of a BAJA cycle the LED is off and the buzzer
\* silent; after that of a MEDIA cycle the LED is on and the buzzer silent,
\* also when an earlier cycle started a tone.
C9_LowAndMediumOutputs ==
    Actuated =>
        /\ currentAlertLevel = AL_BAJA => (ledPin = 0 /\ AudibleOff)
        /\ currentAlertLevel = AL_MEDIA => (ledPin = 1 /\ AudibleOff)

\* ======================================================================
\* C10: a temperature of exactly 40.0, a humidity of exactly 20.0 and gas
\* readings of exactly 1500 and 1200 do not count as high, low or detected;
\* 40.1, 19.9, 1501 and 1201 do.
C10_StrictThresholds ==
    Classified =>
        /\ currentTemperature = 400 => currentAlertLevel \in {AL_BAJA, AL_MEDIA}
        /\ currentHumidity = 200 => currentAlertLevel \in {AL_BAJA, AL_ALTA}
        /\ (mq2Value = 1500 /\ mq135Value = 1200) =>
              /\ currentAlertLevel \in {AL_BAJA, AL_MEDIA}
              /\ currentAlertLevel = AL_MEDIA =>
                    (currentTemperature > 400 /\ currentHumidity < 200)
        /\ (currentTemperature = 401 /\ currentHumidity = 199) =>
              currentAlertLevel \in {AL_MEDIA, AL_CRITICA}
        /\ (currentTemperature = 401 /\ mq2Value = 1501 /\ mq135Value = 1200) =>
              currentAlertLevel \in {AL_ALTA, AL_CRITICA}
        /\ (currentTemperature = 401 /\ mq2Value = 1500 /\ mq135Value = 1201) =>
              currentAlertLevel \in {AL_ALTA, AL_CRITICA}

C10_Witness ==
    /\ pc = "actuate"
    /\ currentTemperature = 400
    /\ currentHumidity = 199
    /\ mq2Value = 1500
    /\ mq135Value = 1201
    /\ currentAlertLevel = AL_MEDIA

\* ======================================================================
\* C11: every record handed to the radio holds, in this order, the tag
\* ALERTA_INCENDIO, the label of the cycle's level, the cycle's temperature and
\* humidity with one decimal, gas readings A and B, and the identifier
\* Sentinela001 (40.1, 19.9, 1501, 1200 give CRITICA with those four values).
C11_RadioRecordFields ==
    /\ (Payloads = 0) <=> (loraPacket = <<>>)
    /\ Payloads > 0 =>
          /\ RadioDone
          /\ Len(loraPacket) = 12
          /\ loraPacket[1] = "ALERTA_INCENDIO"
          /\ loraPacket[2] = "Nivel:"
          /\ loraPacket[3] = (CASE currentAlertLevel = AL_MEDIA -> "MEDIA"
                                [] currentAlertLevel = AL_ALTA -> "ALTA"
                                [] currentAlertLevel = AL_CRITICA -> "CRITICA"
                                [] OTHER -> "?")
          /\ loraPacket[4] = "Temp:"
          /\ loraPacket[5] = <<"", currentTemperature \div 10, currentTemperature % 10>>
          /\ loraPacket[6] = "Hum:"
          /\ loraPacket[7] = <<"", currentHumidity \div 10, currentHumidity % 10>>
          /\ loraPacket[8] = "MQ2:"
          /\ loraPacket[9] = mq2Value
          /\ loraPacket[10] = "MQ135:"
          /\ loraPacket[11] = mq135Value
          /\ loraPacket[12] = "ID:Sentinela001"
    /\ (Payloads > 0 /\ readings[1] = 401 /\ readings[2] = 199
          /\ mq2Value = 1501 /\ mq135Value = 1200) =>
          loraPacket = <<"ALERTA_INCENDIO", "Nivel:", "CRITICA", "Temp:", <<"", 40, 1>>,
                         "Hum:", <<"", 19, 9>>, "MQ2:", 1501, "MQ135:", 1200,
                         "ID:Sentinela001">>

C11_Witness ==
    /\ pc = "log"
    /\ currentTemperature = 401
    /\ currentHumidity = 199
    /\ mq2Value = 1501
    /\ mq135Value = 1200
    /\ Payloads = 1
    /\ loraPacket[3] = "CRITICA"
    /\ loraPacket[5] = <<"", 40, 1>>

\* ======================================================================
\* The fields of a log line after the time, and the calls around it.
LogLabel ==
    CASE currentAlertLevel = AL_BAJA -> "BAJA"
      [] currentAlertLevel = AL_MEDIA -> "MEDIA"
      [] currentAlertLevel = AL_ALTA -> "ALTA"
      [] currentAlertLevel = AL_CRITICA -> "CRITICA"
      [] OTHER -> "?"

LogFieldsAfterTime ==
    /\ Len(sdLine) = 7
    /\ sdLine[2] = <<"", currentTemperature \div 10, currentTemperature % 10>>
    /\ sdLine[3] = <<"", currentHumidity \div 10, currentHumidity % 10>>
    /\ sdLine[4] = <<"", internalTemperature \div 10, internalTemperature % 10>>
    /\ sdLine[5] = mq2Value
    /\ sdLine[6] = mq135Value
    /\ sdLine[7] = LogLabel

\* println is the call after a successful open and close the call after println;
\* a failed open is followed by nothing.
FileClosedInCycle ==
    /\ Count("println", sdCalls) = Count("open=1", sdCalls)
    /\ Count("close", sdCalls) = Count("open=1", sdCalls)
    /\ \A i \in 1..Len(sdCalls) :
          /\ sdCalls[i] = "open=1" =>
                (i + 2 = Len(sdCalls) /\ sdCalls[i + 1] = "println" /\ sdCalls[i + 2] = "close")
          /\ sdCalls[i] = "open=0" => i = Len(sdCalls)

\* C12 as stated: every appended line starts with the elapsed whole seconds
\* since boot, followed by the cycle's temperature, humidity, probe temperature,
\* gas A, gas B and level label; it is written with println and the file is
\* closed in the same cycle.
C12_LogLineStartsWithSeconds ==
    /\ (Count("println", sdCalls) = 0) <=> (sdLine = <<>>)
    /\ FileClosedInCycle
    /\ sdLine # <<>> =>
          /\ CycleDone
          /\ sdLine[1][1] = millis \div 1000
          /\ LogFieldsAfterTime

\* C12 amended: the first field is the elapsed whole seconds followed by "s" in
\* the sketch of lines 1..233 and the elapsed milliseconds in the sketch of
\* lines 236..537; the rest as stated.
C12_LogLineFields ==
    /\ (Count("println", sdCalls) = 0) <=> (sdLine = <<>>)
    /\ FileClosedInCycle
    /\ sdLine # <<>> =>
          /\ CycleDone
          /\ sdLine[1] = IF variant = "v1"
                         THEN <<(clock * 50) \div 1000, "s">>
                         ELSE <<clock * 50, "">>
          /\ LogFieldsAfterTime

C12_Witness ==
    /\ variant = "v1"
    /\ CycleDone
    /\ sdCalls = <<"open=1", "println", "close">>
    /\ sdLine # <<>>
    /\ sdLine[1] = <<1, "s">>
    /\ sdLine[4] = <<"", 22, 5>>

\* ======================================================================
\* C13 as stated: after a cycle in which SD.open failed, storage counts as
\* unavailable and the next cycles make no open and no append.
C13_LoggerDisabledAfterOpenFailure ==
    (lastOpenFailed /\ CycleDone) =>
        /\ ~StorageAvailable
        /\ Opens = 0
        /\ Count("println", sdCalls) = 0

\* C13 amended: a failed SD.open disables nothing.  In the sketch of lines
\* 1..233 the flag stays set and the next cycle makes one open again; in the
\* sketch of lines 236..537 the next cycle calls SD.begin again and opens when
\* it succeeds.  The line that could not be written is not kept: a cycle writes
\* at most one line, that of its own readings.
C13_OpenFailureDisablesNothing ==
    lastOpenFailed =>
        /\ variant = "v1" => (sdAvailable /\ (CycleDone => Opens = 1))
        /\ variant = "v2" =>
              (CycleDone => (Begins = 1 /\ Opens = Count("begin=1", sdCalls)))
        /\ Count("println", sdCalls) <= 1
        /\ sdLine # <<>> => LogFieldsAfterTime

C13_Witness ==
    /\ variant = "v1"
    /\ lastOpenFailed
    /\ CycleDone
    /\ sdCalls = <<"open=1", "println", "close">>

\* ======================================================================
\* C14: activateLocalAlerts, sendLoRaAlert and logDataToSD leave the five
\* readings and the level as they found them, so from classification to the end
\* of the cycle the level is the classification of the stored readings, and the
\* radio record and the log line of one cycle agree on label, temperature,
\* humidity and gas values.
DispatchKeepsSnapshot ==
    pc \in {"actuate", "radio", "log"} =>
        /\ readings' = readings
        /\ currentAlertLevel' = currentAlertLevel

LevelMatchesReadings ==
    Classified => currentAlertLevel = Classify(TempHigh, HumLow, GasDetected)

RecordsAgree ==
    (loraPacket # <<>> /\ sdLine # <<>>) =>
        /\ loraPacket[3] = sdLine[7]
        /\ loraPacket[5] = sdLine[2]
        /\ loraPacket[7] = sdLine[3]
        /\ loraPacket[9] = sdLine[5]
        /\ loraPacket[11] = sdLine[6]

C14_DispatchSharesSnapshot ==
    /\ [][DispatchKeepsSnapshot]_vars
    /\ [](LevelMatchesReadings /\ RecordsAgree)

C14_Witness ==
    /\ CycleDone
    /\ loraPacket # <<>>
    /\ sdLine # <<>>
    /\ currentAlertLevel = AL_ALTA
    /\ loraPacket[3] = "ALTA"
    /\ sdLine[7] = "ALTA"

\* ======================================================================
\* C15: while the level is AL_ALTA or AL_CRITICA the LED changes state between
\* two consecutive cycles, during the wait that separates them, and not only when
\* activateLocalAlerts runs.
LedChangesWhileWaiting ==
    (pc = "delay" /\ currentAlertLevel \in {AL_ALTA, AL_CRITICA}) => ledPin' # ledPin

C15_LedAlternatesBetweenTicks == [][LedChangesWhileWaiting]_vars

\* ======================================================================
\* C16: in a cycle whose DHT22 read failed the level is AL_BAJA or AL_MEDIA,
\* never AL_ALTA or AL_CRITICA, whatever the gas readings are; and from
\* evaluateAlertLevel to the end of the cycle currentTemperature and
\* currentHumidity are never NaN.
C16_FailureNeverEscalates ==
    /\ (Classified /\ dhtFailed) =>
          /\ currentAlertLevel \in {AL_BAJA, AL_MEDIA}
          /\ currentAlertLevel \notin {AL_ALTA, AL_CRITICA}
    /\ pc \in {"evaluate", "actuate", "radio", "log", "delay"} =>
          /\ ~isnan(currentTemperature)
          /\ ~isnan(currentHumidity)

C16_Witness ==
    /\ pc = "log"
    /\ dhtFailed
    /\ mq2Value > GAS_UMBRAL_MQ2
    /\ mq135Value > GAS_UMBRAL_MQ135
    /\ currentAlertLevel = AL_MEDIA
    /\ ~isnan(currentTemperature)
    /\ ~isnan(currentHumidity)

\* ======================================================================
\* C17: the radio is used in a cycle only when at least two of tempHigh, humLow
\* and gasDetected hold for the stored readings of that cycle; with one
\* predicate alone, gas above its threshold with temperature not high and
\* humidity not low in particular, sendLoRaAlert calls nothing on the radio.
PredicatesHolding ==
    (IF TempHigh THEN 1 ELSE 0) + (IF HumLow THEN 1 ELSE 0) + (IF GasDetected THEN 1 ELSE 0)

C17_TransmissionNeedsTwoPredicates ==
    /\ (loraCalls # <<>> \/ loraPacket # <<>>) => PredicatesHolding >= 2
    /\ (RadioDone /\ PredicatesHolding <= 1) =>
          /\ loraCalls = <<>>
          /\ loraPacket = <<>>
          /\ SentDiagnostics = {}
    /\ (RadioDone /\ GasDetected /\ ~TempHigh /\ ~HumLow) => BeginPackets = 0

C17_Witness ==
    /\ RadioDone
    /\ GasDetected
    /\ ~TempHigh
    /\ ~HumLow
    /\ currentAlertLevel = AL_BAJA
    /\ loraCalls = <<>>
    /\ loraPacket = <<>>

\* ======================================================================
\* C18: evaluateAlertLevel is monotone in AL_BAJA < AL_MEDIA < AL_ALTA <
\* AL_CRITICA: a predicate triple that has every true predicate of another one,
\* and possibly more, never gets a lower level; so no triple above the one of
\* the current cycle classifies below currentAlertLevel and none below it
\* classifies above.
Triples == BOOLEAN \X BOOLEAN \X BOOLEAN

TripleLeq(p, q) == \A i \in 1..3 : p[i] => q[i]

LevelOf(p) == Classify(p[1], p[2], p[3])

CurrentTriple == <<TempHigh, HumLow, GasDetected>>

C18_ClassifierMonotone ==
    /\ \A p \in Triples, q \in Triples : TripleLeq(p, q) => LevelOf(p) <= LevelOf(q)
    /\ Classified =>
          /\ \A q \in Triples : TripleLeq(CurrentTriple, q) => currentAlertLevel <= LevelOf(q)
          /\ \A p \in Triples : TripleLeq(p, CurrentTriple) => LevelOf(p) <= currentAlertLevel

C18_Witness ==
    /\ pc = "actuate"
    /\ TempHigh
    /\ ~HumLow
    /\ GasDetected
    /\ currentAlertLevel = AL_ALTA
    /\ LevelOf(<<TRUE, TRUE, TRUE>>) = AL_CRITICA
    /\ LevelOf(<<TRUE, FALSE, FALSE>>) = AL_BAJA

\* ======================================================================
\* C19: currentAlertLevel is always one of the four levels, getAlertLevelString
\* maps the four levels one-to-one onto BAJA, MEDIA, ALTA and CRITICA, so no
\* radio record and no log line carries DESCONOCIDO, and a radio record carries
\* MEDIA, ALTA or CRITICA, never BAJA.
Labels == {"BAJA", "MEDIA", "ALTA", "CRITICA"}

C19_LabelsAreTheFourLevels ==
    /\ currentAlertLevel \in AlertLevel
    /\ \A a \in AlertLevel, b \in AlertLevel :
          getAlertLevelString(a) = getAlertLevelString(b) => a = b
    /\ {getAlertLevelString(l) : l \in AlertLevel} = Labels
    /\ getAlertLevelString(currentAlertLevel) # "DESCONOCIDO"
    /\ loraPacket # <<>> =>
          /\ loraPacket[3] \in {"MEDIA", "ALTA", "CRITICA"}
          /\ loraPacket[3] # "BAJA"
          /\ loraPacket[3] # "DESCONOCIDO"
    /\ sdLine # <<>> =>
          /\ sdLine[7] \in Labels
          /\ sdLine[7] # "DESCONOCIDO"

C19_Witness ==
    /\ CycleDone
    /\ currentAlertLevel = AL_CRITICA
    /\ loraPacket # <<>>
    /\ sdLine # <<>>
    /\ loraPacket[3] = "CRITICA"
    /\ sdLine[7] = "CRITICA"

====
